---------------------------- MODULE Spec2Model ----------------------------
(***************************************************************************)
(* bake-textures.py: a Blender script that imports an OBJ model, copies    *)
(* it, strips the copy's materials, decimates the copy when it is large,   *)
(* UV-unwraps it, restores detail (subdivision + shrink-wrap), bakes the   *)
(* original's appearance into a new image on the copy, and exports the     *)
(* copy and the image.                                                     *)
(*                                                                         *)
(* The host application (bpy) is modelled as one record, `bpy`: the scene  *)
(* objects, the selection, the active object, each object's mesh and       *)
(* modifier stack, the material and image data-blocks, and the log of the  *)
(* host calls the script has issued.  Every helper function of the script  *)
(* is an operator from host state to host state; every statement of the    *)
(* main workflow is an action.                                             *)
(***************************************************************************)
EXTENDS Integers, Sequences, FiniteSets, TLC

VARIABLES
    pc,                    \* the statement of the main workflow to run next
    bpy,                   \* the host application's state
    importedModel,         \* line 205
    modelCopy,             \* line 209
    decimated,             \* line 217
    newTexture,            \* line 238
    originalPolyCount,     \* subSurfToTarget, line 80
    startingPolyCount,     \* subSurfToTarget, line 83
    level,                 \* subSurfToTarget, line 86
    estimated_poly_count,  \* subSurfToTarget, line 87
    import_model_stat,     \* importObj, line 35
    export_model_stat,     \* exportObj, line 43
    raised,                \* the exception that ended the script, "" if none
    twin                   \* a second run of the script on the same host answers,
                           \* except for the operators' status values (TwinSpec)

vars == <<pc, bpy, importedModel, modelCopy, decimated, newTexture,
          originalPolyCount, startingPolyCount, level, estimated_poly_count,
          import_model_stat, export_model_stat, raised, twin>>

-----------------------------------------------------------------------------
(* Bounds of the model. *)

MaxPre == 1   \* objects in the scene before the script runs
MaxImport == 2   \* objects one OBJ file brings in
MaxSlots == 2   \* material slots of an imported object
MaxSmallPoly == 1   \* small polygon counts 0..MaxSmallPoly
MaxDelta == 1   \* polygon counts within MaxDelta of the threshold
MaxScale == 2   \* polygon counts up to MaxScale times the threshold
MaxLevel == 12  \* cap of the level search (reached only when it diverges)
MaxCopyPoly == 3   \* subSurfToTarget alone: polygon counts of obj
MaxTargetPoly == 40 \* subSurfToTarget alone: polygon counts of target

(* Literals of the script. *)

PolyThreshold == 100000   \* line 218
RatioPercent  == 1        \* line 219: ratio = 0.01
TexWidth      == 1024     \* line 147
TexHeight     == 1024     \* line 147

file_loc   == "C:\\Users\\Kevin\\Documents\\test_models\\3dmodel.obj"      \* line 204
export_loc == "C:\\Users\\Kevin\\Documents\\test_models\\new3dmodel.obj"   \* line 246

None == 0                         \* no object / no data-block
Status == {"FINISHED", "CANCELLED"}

-----------------------------------------------------------------------------
(* Sequences. *)

Range(s) == {s[i] : i \in 1..Len(s)}

Last(s) == s[Len(s)]

RemoveAt(s, i) == [j \in 1..(Len(s) - 1) |-> IF j < i THEN s[j] ELSE s[j + 1]]

Restrict(f, S) == [x \in S |-> f[x]]

RECURSIVE Pow(_, _)
Pow(b, e) == IF e = 0 THEN 1 ELSE b * Pow(b, e - 1)

-----------------------------------------------------------------------------
(* The host. *)

(* One issued host call: the operator or API method, the object (or image) *)
(* it was given, its main argument, its numeric argument (0 when it has    *)
(* none), and the selection and active object at the moment of the call.   *)
Call(b, op, obj, arg, num) ==
    [op |-> op, obj |-> obj, arg |-> arg, num |-> num,
     sel |-> b.selected, act |-> b.active]

Log(b, op, obj, arg, num) ==
    [b EXCEPT !.ops = Append(@, Call(b, op, obj, arg, num))]

(* bpy.context.editable_objects *)
editable_objects(b) == b.objects

(* A freshly created object. *)
NewObject(polygons, slots) ==
    [polygons |-> polygons, material_slots |-> slots,
     active_material_index |-> 0, modifiers |-> <<>>, uv |-> FALSE]

(* bpy.ops.object.select_all(action=...) *)
select_all(b, action) ==
    [Log(b, "object.select_all", None, action, 0) EXCEPT
        !.selected = IF action = "SELECT" THEN Range(b.objects) ELSE {}]

(* obj.select_set(True) *)
select_set(b, obj) ==
    [Log(b, "select_set", obj, "True", 0) EXCEPT !.selected = @ \cup {obj}]

(* bpy.ops.object.delete(use_global=False): the selected objects leave the scene. *)
object_delete(b) ==
    LET keep == SelectSeq(b.objects, LAMBDA o : o \notin b.selected)
    IN  [Log(b, "object.delete", None, "use_global=False", 0) EXCEPT
            !.objects  = keep,
            !.ob       = Restrict(@, Range(keep)),
            !.selected = {},
            !.active   = IF b.active \in b.selected THEN None ELSE @]

(* A material data-block: its node tree's nodes (each with the image it    *)
(* holds, None for a node that holds none), its links <<from socket, to    *)
(* socket>>, and the name of its active node ("" when none is active).     *)
NewMaterial(name) ==
    [name |-> name, use_nodes |-> FALSE, nodes |-> {}, links |-> {},
     active |-> ""]

Node(name, image) == [name |-> name, image |-> image, select |-> FALSE]

DefaultNodes == {Node("Principled BSDF", None), Node("Material Output", None)}

DefaultLinks == {<<"Principled BSDF.BSDF", "Material Output.Surface">>}

(* bpy.ops.import_scene.obj(filepath=...): the file's k objects, each of    *)
(* p polygons and n material slots, join the scene and become the          *)
(* selection; the file's n materials become data-blocks.                   *)
import_scene_obj(b, filepath, k, p, n) ==
    LET b1   == Log(b, "import_scene.obj", None, filepath, 0)
        ids  == [i \in 1..k |-> b.nextId + i - 1]
        m0   == Len(b.materials)
        mats == [i \in 1..n |-> [NewMaterial("mtl") EXCEPT
                                    !.use_nodes = TRUE,
                                    !.nodes = DefaultNodes,
                                    !.links = DefaultLinks]]
        slots == [i \in 1..n |-> m0 + i]
    IN  [b1 EXCEPT
            !.objects   = @ \o ids,
            !.ob        = [o \in (DOMAIN @) \cup Range(ids) |->
                              IF o \in DOMAIN @ THEN @[o]
                              ELSE NewObject(p, slots)],
            !.materials = @ \o mats,
            !.selected  = Range(ids),
            !.nextId    = @ + k]

(* bpy.ops.object.duplicate(): every selected object gets a copy, placed    *)
(* after the existing objects; the copies become the selection and the     *)
(* copy of the active object the active one.                               *)
object_duplicate(b) ==
    LET src  == SelectSeq(b.objects, LAMBDA o : o \in b.selected)
        ids  == [i \in 1..Len(src) |-> b.nextId + i - 1]
        from == [i \in Range(ids) |-> src[i - b.nextId + 1]]
    IN  [Log(b, "object.duplicate", None, "", 0) EXCEPT
            !.objects  = @ \o ids,
            !.ob       = [o \in (DOMAIN @) \cup Range(ids) |->
                              IF o \in DOMAIN @ THEN @[o] ELSE @[from[o]]],
            !.selected = Range(ids),
            !.active   = IF \E i \in Range(ids) : from[i] = b.active
                         THEN CHOOSE i \in Range(ids) : from[i] = b.active
                         ELSE @,
            !.nextId   = @ + Len(src)]

(* obj.modifiers.new(name, type) followed by the writes to its fields. *)
modifiers_new(b, obj, name, type, ratio, levels, target) ==
    [Log(b, "modifiers.new", obj, name, 0) EXCEPT
        !.ob[obj].modifiers =
            Append(@, [name |-> name, type |-> type, ratio |-> ratio,
                       levels |-> levels, target |-> target])]

(* The setting a modifier is evaluated with. *)
Setting(m) ==
    CASE m.type = "DECIMATE"   -> m.ratio
      [] m.type = "SUBSURF"    -> m.levels
      [] m.type = "SHRINKWRAP" -> m.target

(* bpy.ops.object.modifier_apply(apply_as='DATA', modifier=name): the named *)
(* modifier of the active object is evaluated into its mesh, which then    *)
(* has `faces` polygons, and leaves the stack. The call is logged with the *)
(* setting the modifier was evaluated with.                                *)
modifier_apply(b, name, faces) ==
    LET o  == b.active
        ms == IF o \in DOMAIN b.ob
              THEN SelectSeq(b.ob[o].modifiers, LAMBDA m : m.name = name)
              ELSE << >>
    IN  IF ms # << >>
        THEN [Log(b, "object.modifier_apply", o, name, Setting(ms[1])) EXCEPT
                !.ob[o].modifiers = SelectSeq(@, LAMBDA m : m.name # name),
                !.ob[o].polygons  = faces]
        ELSE Log(b, "object.modifier_apply", o, name, 0)

(* bpy.ops.object.material_slot_remove({'object': obj}): the active slot of *)
(* obj goes; the active index stays on a slot that exists.                 *)
material_slot_remove(b, obj) ==
    LET b1 == Log(b, "object.material_slot_remove", obj, "", 0)
        n  == Len(b.ob[obj].material_slots)
        a  == b.ob[obj].active_material_index
    IN  IF n = 0 THEN b1
        ELSE [b1 EXCEPT
                !.ob[obj].material_slots = RemoveAt(@, (IF a < n THEN a ELSE n - 1) + 1),
                !.ob[obj].active_material_index =
                    IF a >= n - 1 THEN (IF n - 1 = 0 THEN 0 ELSE n - 2) ELSE a]

(* bpy.ops.uv.smart_project(stretch_to_bounds=False) *)
smart_project(b) ==
    LET b1 == Log(b, "uv.smart_project", b.active, "stretch_to_bounds=False", 0)
    IN  IF b.active \in DOMAIN b.ob
        THEN [b1 EXCEPT !.ob[b.active].uv = TRUE]
        ELSE b1

(* bpy.data.materials.new(name=...) ; the new data-block is the last one. *)
materials_new(b, name) ==
    [Log(b, "materials.new", None, name, 0) EXCEPT
        !.materials = Append(@, NewMaterial(name))]

(* material.use_nodes = True: the default node tree appears. *)
set_use_nodes(b, mat) ==
    [b EXCEPT !.materials[mat].use_nodes = TRUE,
              !.materials[mat].nodes     = DefaultNodes,
              !.materials[mat].links     = DefaultLinks]

(* bpy.data.images.new(name=..., width=..., height=...) *)
images_new(b, name, width, height) ==
    [Log(b, "images.new", None, name, width) EXCEPT
        !.images = Append(@, [name |-> name, width |-> width, height |-> height,
                              filepath_raw |-> "", baked |-> FALSE])]

(* material.node_tree.nodes.new("ShaderNodeTexImage") *)
nodes_new(b, mat, type) ==
    [Log(b, "nodes.new", None, type, 0) EXCEPT
        !.materials[mat].nodes = @ \cup {Node("Image Texture", None)}]

(* texImageNode.image = image ; texImageNode.select = True *)
set_node_image(b, mat, node, image) ==
    [b EXCEPT !.materials[mat].nodes =
        {IF n.name = node THEN [n EXCEPT !.image = image] ELSE n : n \in @}]

set_node_select(b, mat, node) ==
    [b EXCEPT !.materials[mat].nodes =
        {IF n.name = node THEN [n EXCEPT !.select = TRUE] ELSE n : n \in @}]

(* bpy.data.materials[name]: the data-blocks of that name. *)
materials_named(b, name) ==
    {m \in 1..Len(b.materials) : b.materials[m].name = name}

(* node_tree.nodes.active = node: a node of another tree clears the active node. *)
set_active_node(b, mat, nodeMat, node) ==
    [b EXCEPT !.materials[mat].active = IF mat = nodeMat THEN node ELSE ""]

(* material.node_tree.links.new(input, output) *)
links_new(b, mat, input, output) ==
    [Log(b, "links.new", None, input, 0) EXCEPT
        !.materials[mat].links = @ \cup {<<output, input>>}]

(* obj.data.materials.append(material) *)
materials_append(b, obj, mat) ==
    [Log(b, "materials.append", obj, "", 0) EXCEPT
        !.ob[obj].material_slots = Append(@, mat)]

(* The image texture nodes' images of the materials in obj's slots. *)
SlotImages(b, obj) ==
    {n.image : n \in UNION {b.materials[b.ob[obj].material_slots[i]].nodes :
                                i \in 1..Len(b.ob[obj].material_slots)}} \ {None}

(* bpy.ops.object.bake(...): the selected objects are baked into the images *)
(* of the active object's materials.                                       *)
object_bake(b, type) ==
    LET b1 == Log(b, "object.bake", b.active, type, 0)
    IN  IF b.active \in DOMAIN b.ob
        THEN [b1 EXCEPT !.images = [i \in 1..Len(@) |->
                            IF i \in SlotImages(b, b.active)
                            THEN [@[i] EXCEPT !.baked = TRUE] ELSE @[i]]]
        ELSE b1

(* bpy.ops.export_scene.obj(filepath=..., use_selection=...): logged with    *)
(* 1 for use_selection=True, 0 for False.                                  *)
export_scene_obj(b, filepath, use_selection) ==
    Log(b, "export_scene.obj", None, filepath, IF use_selection THEN 1 ELSE 0)

(* image.save(): the image goes to its filepath_raw. *)
image_save(b, image) ==
    Log(b, "image.save", image, b.images[image].filepath_raw, 0)

-----------------------------------------------------------------------------
(* The script's functions. Those that return a value return a record:      *)
(* b the host state after the call, ret the value, exc the exception the   *)
(* call raised ("" when it returned).                                      *)

selectObj(b, obj) == select_set(select_all(b, "DESELECT"), obj)

makeActive(b, obj) == [b EXCEPT !.active = obj]

selectAll(b) == select_all(b, "SELECT")

deleteSelected(b) == object_delete(b)

importObj(b, loc, k, p, n, stat) ==
    LET b1 == import_scene_obj(b, loc, k, p, n)
    IN  IF Len(editable_objects(b1)) = 0
        THEN [b |-> b1, ret |-> None, stat |-> stat, exc |-> "IndexError"]
        ELSE [b |-> b1, ret |-> Last(editable_objects(b1)), stat |-> stat, exc |-> ""]

(* Fault injection for TwoOutputs: the export without the selection of obj. *)
exportObj_noSelect(b, obj, loc, stat) ==
    [b |-> export_scene_obj(b, loc, TRUE), ret |-> stat]

exportObj(b, obj, loc, stat) ==
    [b |-> export_scene_obj(selectObj(b, obj), loc, TRUE), ret |-> stat]

exportTexture(b, image, loc) ==
    image_save([b EXCEPT !.images[image].filepath_raw = loc], image)

duplicate(b, obj) ==
    LET b1 == object_duplicate(selectObj(b, obj))
    IN  [b |-> b1, ret |-> Last(editable_objects(b1))]

getPolyCount(b, obj) == b.ob[obj].polygons

decimate(b, obj, ratio, faces) ==
    LET b1 == modifiers_new(b, obj, "Decimate", "DECIMATE", ratio, 0, None)
    IN  modifier_apply(makeActive(selectObj(b1, obj), obj), "Decimate", faces)

(* Fault injection for LeastLevel: the exponent is the level itself. *)
Estimate_offByOne(polys, lvl) == polys * (Pow(4, lvl) * 3)

(* Lines 87 and 90: the polygon count expected of `level` subdivisions. *)
Estimate(polys, lvl) == polys * (Pow(4, lvl - 1) * 3)

(* Lines 92-99 of subSurfToTarget, after the level search. *)
subSurfApply(b, obj, lvl, faces) ==
    LET b1 == modifiers_new(b, obj, "Subsurf", "SUBSURF", 0, lvl, None)
    IN  modifier_apply(makeActive(selectObj(b1, obj), obj), "Subsurf", faces)

shrinkWrap(b, obj, target) ==
    LET b1 == modifiers_new(b, obj, "ShrinkWrap", "SHRINKWRAP", 0, 0, target)
    IN  modifier_apply(makeActive(selectObj(b1, obj), obj), "ShrinkWrap",
                       getPolyCount(b1, obj))

(* The loop of purgeMaterials: i calls of material_slot_remove. *)
RECURSIVE RemoveSlots(_, _, _)
RemoveSlots(b, obj, i) ==
    IF i = 0 THEN b ELSE RemoveSlots(material_slot_remove(b, obj), obj, i - 1)

(* Fault injection for SingleTexture: the loop runs one time too few. *)
purgeMaterials_keepOne(b, obj) ==
    RemoveSlots([b EXCEPT !.ob[obj].active_material_index = 0], obj,
                IF Len(b.ob[obj].material_slots) = 0 THEN 0
                ELSE Len(b.ob[obj].material_slots) - 1)

purgeMaterials(b, obj) ==
    RemoveSlots([b EXCEPT !.ob[obj].active_material_index = 0], obj,
                Len(b.ob[obj].material_slots))

createMaterial(b, myName) ==
    LET b1 == materials_new(b, myName)
    IN  [b |-> set_use_nodes(b1, Len(b1.materials)), ret |-> Len(b1.materials)]

createImage(b, myWidth, myHeight, myName) ==
    LET b1 == images_new(b, myName, myWidth, myHeight)
    IN  [b |-> b1, ret |-> Len(b1.images)]

smartUV(b, obj) == smart_project(makeActive(selectObj(b, obj), obj))

setRenderEngine(b, engine) == [b EXCEPT !.engine = engine]

makeNewTexture(b, obj) ==
    LET m            == createMaterial(b, "New Material")
        material     == m.ret
        i            == createImage(m.b, TexWidth, TexHeight, "Blank Image")
        image        == i.ret
        bsdfNode     == "Principled BSDF"
        texImageNode == "Image Texture"
        b1 == set_node_image(nodes_new(i.b, material, "ShaderNodeTexImage"),
                             material, texImageNode, image)
        found == materials_named(b1, "Material")
    IN  IF found = {}
        THEN [b |-> b1, ret |-> None, exc |-> "KeyError"]
        ELSE
        LET other == CHOOSE x \in found : \A y \in found : x <= y
            b2    == set_node_select(b1, material, texImageNode)
        IN  IF ~b2.materials[other].use_nodes
            THEN [b |-> b2, ret |-> None, exc |-> "AttributeError"]
            ELSE
            LET b3 == set_active_node(b2, other, material, texImageNode)
                b4 == links_new(b3, material, bsdfNode \o ".Base Color",
                                texImageNode \o ".Color")
            IN  [b |-> materials_append(b4, obj, material), ret |-> image,
                 exc |-> ""]

bake(b, obj, target) ==
    object_bake(makeActive(selectAll(setRenderEngine(b, "CYCLES")), target),
                "DIFFUSE")

-----------------------------------------------------------------------------
(* The main workflow, lines 198-248. A run of the script is a record of    *)
(* the script's variables; each statement maps the run before it to the    *)
(* run after it.                                                           *)

State ==
    [pc |-> pc, bpy |-> bpy, importedModel |-> importedModel,
     modelCopy |-> modelCopy, decimated |-> decimated, newTexture |-> newTexture,
     originalPolyCount |-> originalPolyCount,
     startingPolyCount |-> startingPolyCount, level |-> level,
     estimated_poly_count |-> estimated_poly_count,
     import_model_stat |-> import_model_stat,
     export_model_stat |-> export_model_stat, raised |-> raised]

Set(s) ==
    /\ pc' = s.pc
    /\ bpy' = s.bpy
    /\ importedModel' = s.importedModel
    /\ modelCopy' = s.modelCopy
    /\ decimated' = s.decimated
    /\ newTexture' = s.newTexture
    /\ originalPolyCount' = s.originalPolyCount
    /\ startingPolyCount' = s.startingPolyCount
    /\ level' = s.level
    /\ estimated_poly_count' = s.estimated_poly_count
    /\ import_model_stat' = s.import_model_stat
    /\ export_model_stat' = s.export_model_stat
    /\ raised' = s.raised

(* An uncaught exception ends the script. *)
Raise(s, b, exc) == [s EXCEPT !.pc = "raised", !.bpy = b, !.raised = exc]

(* line 199 *)
stmt_selectAll(s) ==
    [s EXCEPT !.pc = "deleteSelected", !.bpy = selectAll(s.bpy)]

(* line 200 *)
stmt_deleteSelected(s) ==
    [s EXCEPT !.pc = "importObj", !.bpy = deleteSelected(s.bpy)]

(* Fault injection for StatusIgnored: the script stops unless the import    *)
(* reports FINISHED.                                                       *)
stmt_importObj_checked(s, k, p, n, stat) ==
    LET r == importObj(s.bpy, file_loc, k, p, n, stat)
    IN  IF r.exc # "" \/ r.stat # "FINISHED"
        THEN Raise(s, r.b, IF r.exc # "" THEN r.exc ELSE "RuntimeError")
        ELSE [s EXCEPT !.pc = "duplicate", !.bpy = r.b,
                       !.importedModel = r.ret, !.import_model_stat = r.stat]

(* lines 204-205 *)
stmt_importObj(s, k, p, n, stat) ==
    LET r == importObj(s.bpy, file_loc, k, p, n, stat)
    IN  IF r.exc # ""
        THEN Raise(s, r.b, r.exc)
        ELSE [s EXCEPT !.pc = "duplicate", !.bpy = r.b,
                       !.importedModel = r.ret, !.import_model_stat = r.stat]

(* line 209 *)
stmt_duplicate(s) ==
    LET r == duplicate(s.bpy, s.importedModel)
    IN  [s EXCEPT !.pc = "purgeMaterials", !.bpy = r.b, !.modelCopy = r.ret]

(* line 213 *)
stmt_purgeMaterials(s) ==
    [s EXCEPT !.pc = "decimate", !.bpy = purgeMaterials(s.bpy, s.modelCopy)]

(* Fault injection for OrderOfHostCalls: the copy is unwrapped before it   *)
(* is decimated.                                                           *)
stmt_decimate_unwrapFirst(s, faces) ==
    LET u == [s EXCEPT !.bpy = smartUV(s.bpy, s.modelCopy)]
    IN  IF getPolyCount(u.bpy, u.modelCopy) > PolyThreshold
        THEN [u EXCEPT !.pc = "smartUV", !.decimated = TRUE,
                       !.bpy = decimate(u.bpy, u.modelCopy, RatioPercent, faces)]
        ELSE [u EXCEPT !.pc = "smartUV", !.decimated = FALSE]

(* Fault injection for DetailIffDecimated: the threshold test is >=. *)
stmt_decimate_atThreshold(s, faces) ==
    IF getPolyCount(s.bpy, s.modelCopy) >= PolyThreshold
    THEN [s EXCEPT !.pc = "smartUV", !.decimated = TRUE,
                   !.bpy = decimate(s.bpy, s.modelCopy, RatioPercent, faces)]
    ELSE [s EXCEPT !.pc = "smartUV", !.decimated = FALSE]

(* lines 217-220; faces is the polygon count the host's decimation leaves *)
stmt_decimate(s, faces) ==
    IF getPolyCount(s.bpy, s.modelCopy) > PolyThreshold
    THEN [s EXCEPT !.pc = "smartUV", !.decimated = TRUE,
                   !.bpy = decimate(s.bpy, s.modelCopy, RatioPercent, faces)]
    ELSE [s EXCEPT !.pc = "smartUV", !.decimated = FALSE]

(* line 224 *)
stmt_smartUV(s) ==
    [s EXCEPT !.pc = IF s.decimated THEN "subSurfToTarget" ELSE "makeNewTexture",
              !.bpy = smartUV(s.bpy, s.modelCopy)]

(* lines 228-231 and 80-87: the call of subSurfToTarget up to the loop *)
stmt_subSurfToTarget(s) ==
    LET o == getPolyCount(s.bpy, s.importedModel)
        c == getPolyCount(s.bpy, s.modelCopy)
    IN  [s EXCEPT !.pc = "subSurfLoop", !.originalPolyCount = o,
                  !.startingPolyCount = c, !.level = 1,
                  !.estimated_poly_count = Estimate(c, 1)]

(* Fault injection for LevelSearchTerminates: the estimate is not updated. *)
stmt_subSurfLoop_stale(s) == [s EXCEPT !.level = s.level + 1]

(* lines 88-90: one iteration of the level search *)
stmt_subSurfLoop(s) ==
    [s EXCEPT !.level = s.level + 1,
              !.estimated_poly_count = Estimate(s.startingPolyCount, s.level + 1)]

(* lines 92-99 *)
stmt_subSurfApply(s, faces) ==
    [s EXCEPT !.pc = "shrinkWrap",
              !.bpy = subSurfApply(s.bpy, s.modelCopy, s.level, faces)]

(* line 234 *)
stmt_shrinkWrap(s) ==
    [s EXCEPT !.pc = "makeNewTexture",
              !.bpy = shrinkWrap(s.bpy, s.modelCopy, s.importedModel)]

(* line 238 *)
stmt_makeNewTexture(s) ==
    LET r == makeNewTexture(s.bpy, s.modelCopy)
    IN  IF r.exc # ""
        THEN Raise(s, r.b, r.exc)
        ELSE [s EXCEPT !.pc = "bake", !.bpy = r.b, !.newTexture = r.ret]

(* line 242 *)
stmt_bake(s) ==
    [s EXCEPT !.pc = "exportObj", !.bpy = bake(s.bpy, s.importedModel, s.modelCopy)]

(* lines 246-247 *)
stmt_exportObj(s, stat) ==
    LET r == exportObj(s.bpy, s.modelCopy, export_loc, stat)
    IN  [s EXCEPT !.pc = "exportTexture", !.bpy = r.b, !.export_model_stat = r.ret]

(* line 248 *)
stmt_exportTexture(s) ==
    [s EXCEPT !.pc = "done",
              !.bpy = exportTexture(s.bpy, s.newTexture, export_loc \o ".jpg")]

-----------------------------------------------------------------------------
(* What the host may answer. *)

(* Polygon counts of an imported model. *)
PolyCounts ==
    (0..MaxSmallPoly)
    \cup ((PolyThreshold - MaxDelta)..(PolyThreshold + MaxDelta))
    \cup {PolyThreshold * m : m \in 1..MaxScale}

(* Polygon counts a decimation of ratio r percent may leave of p polygons. *)
DecimatedCounts(p, r) == {c \in 0..MaxSmallPoly : c <= p} \cup {(p * r) \div 100}

(* Polygon counts a simple subdivision of `lvl` levels may make of p polygons: *)
(* of triangles (the script's estimate) or of quads.                        *)
SubdividedCounts(p, lvl) == {Estimate(p, lvl), p * Pow(4, lvl)}

(* The host's data before the script runs: n objects, and maybe a material  *)
(* named "Material", with or without a node tree.                          *)
StartupMaterials ==
    <<[NewMaterial("Material") EXCEPT !.use_nodes = TRUE,
           !.nodes = DefaultNodes, !.links = DefaultLinks]>>

InitialMaterials == {<< >>, StartupMaterials, <<NewMaterial("Material")>>}

InitialHost(n, mats) ==
    [objects   |-> [i \in 1..n |-> i],
     ob        |-> [i \in 1..n |->
                       NewObject(6, IF mats = << >> THEN << >> ELSE <<1>>)],
     selected  |-> {},
     active    |-> IF n > 0 THEN 1 ELSE None,
     materials |-> mats,
     images    |-> << >>,
     engine    |-> "BLENDER_EEVEE",
     nextId    |-> n + 1,
     ops       |-> << >>]

Init ==
    /\ pc = "selectAll"
    /\ \E n \in 0..MaxPre, mats \in InitialMaterials : bpy = InitialHost(n, mats)
    /\ importedModel = None
    /\ modelCopy = None
    /\ decimated = FALSE
    /\ newTexture = None
    /\ originalPolyCount = 0
    /\ startingPolyCount = 0
    /\ level = 0
    /\ estimated_poly_count = 0
    /\ import_model_stat = ""
    /\ export_model_stat = ""
    /\ raised = ""
    /\ twin = State

-----------------------------------------------------------------------------
(* The statements as actions. *)

SelectAll ==
    /\ pc = "selectAll"
    /\ Set(stmt_selectAll(State))
    /\ UNCHANGED twin

DeleteSelected ==
    /\ pc = "deleteSelected"
    /\ Set(stmt_deleteSelected(State))
    /\ UNCHANGED twin

ImportObj ==
    /\ pc = "importObj"
    /\ \E k \in 0..MaxImport, p \in PolyCounts, n \in 0..MaxSlots, stat \in Status :
           Set(stmt_importObj(State, k, p, n, stat))
    /\ UNCHANGED twin

Duplicate ==
    /\ pc = "duplicate"
    /\ Set(stmt_duplicate(State))
    /\ UNCHANGED twin

PurgeMaterials ==
    /\ pc = "purgeMaterials"
    /\ Set(stmt_purgeMaterials(State))
    /\ UNCHANGED twin

Decimate ==
    /\ pc = "decimate"
    /\ \E faces \in DecimatedCounts(getPolyCount(bpy, modelCopy), RatioPercent) :
           Set(stmt_decimate(State, faces))
    /\ UNCHANGED twin

SmartUV ==
    /\ pc = "smartUV"
    /\ Set(stmt_smartUV(State))
    /\ UNCHANGED twin

SubSurfToTarget ==
    /\ pc = "subSurfToTarget"
    /\ Set(stmt_subSurfToTarget(State))
    /\ UNCHANGED twin

SubSurfLoop ==
    /\ pc = "subSurfLoop"
    /\ estimated_poly_count < originalPolyCount
    /\ level < MaxLevel
    /\ Set(stmt_subSurfLoop(State))
    /\ UNCHANGED twin

SubSurfApply ==
    /\ pc = "subSurfLoop"
    /\ ~(estimated_poly_count < originalPolyCount)
    /\ \E faces \in SubdividedCounts(startingPolyCount, level) :
           Set(stmt_subSurfApply(State, faces))
    /\ UNCHANGED twin

ShrinkWrap ==
    /\ pc = "shrinkWrap"
    /\ Set(stmt_shrinkWrap(State))
    /\ UNCHANGED twin

MakeNewTexture ==
    /\ pc = "makeNewTexture"
    /\ Set(stmt_makeNewTexture(State))
    /\ UNCHANGED twin

Bake ==
    /\ pc = "bake"
    /\ Set(stmt_bake(State))
    /\ UNCHANGED twin

ExportObj ==
    /\ pc = "exportObj"
    /\ \E stat \in Status : Set(stmt_exportObj(State, stat))
    /\ UNCHANGED twin

ExportTexture ==
    /\ pc = "exportTexture"
    /\ Set(stmt_exportTexture(State))
    /\ UNCHANGED twin

Next ==
    \/ SelectAll
    \/ DeleteSelected
    \/ ImportObj
    \/ Duplicate
    \/ PurgeMaterials
    \/ Decimate
    \/ SmartUV
    \/ SubSurfToTarget
    \/ SubSurfLoop
    \/ SubSurfApply
    \/ ShrinkWrap
    \/ MakeNewTexture
    \/ Bake
    \/ ExportObj
    \/ ExportTexture

Spec == Init /\ [][Next]_vars

-----------------------------------------------------------------------------
(* subSurfToTarget on its own: the script at the call of line 231, with a   *)
(* target of o polygons and a copy of c polygons, any o and c, and the     *)
(* statements that follow the call.                                        *)

TargetCounts == (0..MaxTargetPoly) \cup {PolyThreshold + 1}

CopyCounts == 0..MaxCopyPoly

CallHost(o, c) ==
    [InitialHost(0, StartupMaterials) EXCEPT
        !.objects  = <<1, 2>>,
        !.ob       = <<NewObject(o, << >>), [NewObject(c, << >>) EXCEPT !.uv = TRUE]>>,
        !.selected = {2},
        !.active   = 2,
        !.nextId   = 3]

InitCall ==
    /\ pc = "subSurfToTarget"
    /\ \E o \in TargetCounts, c \in CopyCounts : bpy = CallHost(o, c)
    /\ importedModel = 1
    /\ modelCopy = 2
    /\ decimated = TRUE
    /\ newTexture = None
    /\ originalPolyCount = 0
    /\ startingPolyCount = 0
    /\ level = 0
    /\ estimated_poly_count = 0
    /\ import_model_stat = "FINISHED"
    /\ export_model_stat = ""
    /\ raised = ""
    /\ twin = State

NextCall ==
    \/ SubSurfToTarget
    \/ SubSurfLoop
    \/ SubSurfApply
    \/ ShrinkWrap
    \/ MakeNewTexture
    \/ Bake
    \/ ExportObj
    \/ ExportTexture

(* The interpreter runs the next statement whenever there is one; of this  *)
(* only the progress of the level search and of its exit is assumed.       *)
CallSpec ==
    /\ InitCall
    /\ [][NextCall]_vars
    /\ WF_vars(SubSurfLoop)
    /\ WF_vars(SubSurfApply)

-----------------------------------------------------------------------------
(* Two runs of the script side by side. Run is the statement a run is at,  *)
(* applied to the host's answers c; the twin gets the same answers except  *)
(* for the status the import and export operators return.                  *)

Run(s, c) ==
    CASE s.pc = "selectAll"       -> stmt_selectAll(s)
      [] s.pc = "deleteSelected"  -> stmt_deleteSelected(s)
      [] s.pc = "importObj"       -> stmt_importObj(s, c.k, c.p, c.n, c.stat)
      [] s.pc = "duplicate"       -> stmt_duplicate(s)
      [] s.pc = "purgeMaterials"  -> stmt_purgeMaterials(s)
      [] s.pc = "decimate"        -> stmt_decimate(s, c.faces)
      [] s.pc = "smartUV"         -> stmt_smartUV(s)
      [] s.pc = "subSurfToTarget" -> stmt_subSurfToTarget(s)
      [] s.pc = "subSurfLoop"     ->
            IF s.estimated_poly_count < s.originalPolyCount
            THEN (IF s.level < MaxLevel THEN stmt_subSurfLoop(s) ELSE s)
            ELSE stmt_subSurfApply(s, c.faces)
      [] s.pc = "shrinkWrap"      -> stmt_shrinkWrap(s)
      [] s.pc = "makeNewTexture"  -> stmt_makeNewTexture(s)
      [] s.pc = "bake"            -> stmt_bake(s)
      [] s.pc = "exportObj"       -> stmt_exportObj(s, c.stat)
      [] s.pc = "exportTexture"   -> stmt_exportTexture(s)
      [] OTHER                    -> s

(* The answers the host may give to the statement run s is at. *)
Answers(s) ==
    [k     : IF s.pc = "importObj" THEN 0..MaxImport ELSE {0},
     p     : IF s.pc = "importObj" THEN PolyCounts ELSE {0},
     n     : IF s.pc = "importObj" THEN 0..MaxSlots ELSE {0},
     faces : CASE s.pc = "decimate" ->
                    DecimatedCounts(getPolyCount(s.bpy, s.modelCopy), RatioPercent)
               [] s.pc = "subSurfLoop" ->
                    SubdividedCounts(s.startingPolyCount, s.level)
               [] OTHER -> {0},
     stat  : IF s.pc \in {"importObj", "exportObj"} THEN Status ELSE {"FINISHED"}]

TwinStep ==
    /\ pc \notin {"done", "raised"}
    /\ \E c \in Answers(State) :
           /\ Set(Run(State, c))
           /\ \E stat \in (IF pc \in {"importObj", "exportObj"}
                            THEN Status ELSE {"FINISHED"}) :
                  twin' = Run(twin, [c EXCEPT !.stat = stat])

TwinSpec == Init /\ [][TwinStep]_vars

-----------------------------------------------------------------------------
(* Reading the log of host calls. *)

Ops == bpy.ops

CallsOf(op) == {i \in 1..Len(Ops) : Ops[i].op = op}

Applied(name) ==
    \E i \in CallsOf("object.modifier_apply") : Ops[i].arg = name

(* The step of the workflow a host call belongs to; 0 for the selection    *)
(* calls, which several steps make.                                        *)
Stage(c) ==
    CASE c.op = "object.delete"               -> 1
      [] c.op = "import_scene.obj"            -> 2
      [] c.op = "object.duplicate"            -> 3
      [] c.op = "object.material_slot_remove" -> 4
      [] c.op \in {"modifiers.new", "object.modifier_apply"} ->
            (CASE c.arg = "Decimate"   -> 5
               [] c.arg = "Subsurf"    -> 7
               [] c.arg = "ShrinkWrap" -> 8
               [] OTHER                -> 0)
      [] c.op = "uv.smart_project"            -> 6
      [] c.op \in {"materials.new", "images.new", "nodes.new", "links.new",
                   "materials.append"}        -> 9
      [] c.op = "object.bake"                 -> 10
      [] c.op = "export_scene.obj"            -> 11
      [] c.op = "image.save"                  -> 12
      [] OTHER                                -> 0

(* The steps every complete run takes, and the calls a run makes once. *)
MandatoryStages == {1, 2, 3, 6, 9, 10, 11, 12}

OnceOps ==
    {"object.delete", "import_scene.obj", "object.duplicate",
     "object.modifier_apply", "uv.smart_project", "materials.new", "images.new",
     "materials.append", "object.bake", "export_scene.obj", "image.save"}

-----------------------------------------------------------------------------
(* C1: the host calls of a run are issued in the order of the workflow:     *)
(* clear the scene (select all, then delete), import, duplicate, purge the *)
(* copy's materials, decimate, smart UV unwrap, subdivide, shrink-wrap,    *)
(* create the material and image, bake, export the OBJ, save the image.    *)
(* No call of a step comes before a call of an earlier step; a step is     *)
(* reached only after every earlier step that cannot be skipped; the       *)
(* one-call steps are called once; the unwrap lies after the decimation    *)
(* and before the subdivision and the shrink-wrap; a run that ends has     *)
(* taken every step that cannot be skipped.                                *)
OrderOfHostCalls ==
    LET n == Len(Ops)
        S == [i \in 1..n |-> Stage(Ops[i])]
    IN  /\ \A j \in 1..n : S[j] > 0 => \A i \in 1..(j - 1) : S[i] <= S[j]
        /\ \A i \in 1..n : \A m \in MandatoryStages :
               S[i] > m => \E h \in 1..(i - 1) : S[h] = m
        /\ \A j \in 1..n : Ops[j].op \in OnceOps =>
               \A i \in 1..(j - 1) : Ops[i].op = Ops[j].op => Ops[i].arg # Ops[j].arg
        /\ n >= 1 => (Ops[1].op = "object.select_all" /\ Ops[1].arg = "SELECT")
        /\ \A i \in CallsOf("object.delete") : i = 2
        /\ \A i \in 1..n : S[i] = 8 => \E h \in 1..(i - 1) : S[h] = 7
        /\ pc = "done" => \A m \in MandatoryStages : \E i \in 1..n : S[i] = m

(* A finished run that purged slots, decimated, subdivided and shrink-wrapped. *)
OrderOfHostCalls_Witness ==
    /\ pc = "done"
    /\ CallsOf("object.material_slot_remove") # {}
    /\ Applied("Decimate") /\ Applied("Subsurf") /\ Applied("ShrinkWrap")

-----------------------------------------------------------------------------
(* The statements after the detail recovery, and what holds of the log of  *)
(* the modifier calls in every state.                                      *)
AfterDetail == {"makeNewTexture", "bake", "exportObj", "exportTexture", "done"}

DetailIffDecimatedInv ==
    /\ Applied("Subsurf") => Applied("Decimate")
    /\ Applied("ShrinkWrap") => Applied("Subsurf")
    /\ pc \notin {"selectAll", "deleteSelected", "importObj", "duplicate",
                  "purgeMaterials", "decimate", "raised"}
          => (decimated <=> Applied("Decimate"))
    /\ pc \in AfterDetail =>
          /\ Applied("Decimate") <=> Applied("Subsurf")
          /\ Applied("Decimate") <=> Applied("ShrinkWrap")
    /\ ~Applied("Decimate") => CallsOf("modifiers.new") = {}
    /\ (pc = "done" /\ ~Applied("Decimate")) =>
          /\ getPolyCount(bpy, modelCopy) <= 100000
          /\ CallsOf("uv.smart_project") # {}
          /\ CallsOf("materials.append") # {}
          /\ CallsOf("object.bake") # {}
          /\ CallsOf("export_scene.obj") # {}
          /\ CallsOf("image.save") # {}

(* C2: subSurfToTarget and shrinkWrap run if and only if decimate ran, and  *)
(* decimate runs if and only if the copy, measured after purgeMaterials,   *)
(* has more than 100000 polygons. With 100000 polygons or fewer none of    *)
(* the three is invoked: the script goes from the unwrap straight to       *)
(* makeNewTexture, and a run that ends has still unwrapped, made the new   *)
(* texture, baked and exported both outputs.                               *)
DetailIffDecimated ==
    /\ []DetailIffDecimatedInv
    /\ [][pc = "decimate" =>
             (Applied("Decimate")' <=> getPolyCount(bpy, modelCopy) > 100000)]_vars
    /\ [][(pc = "smartUV" /\ ~Applied("Decimate")) => pc' = "makeNewTexture"]_vars
    /\ [][(pc = "smartUV" /\ Applied("Decimate")) => pc' = "subSurfToTarget"]_vars

(* A finished run on a copy of exactly 100000 polygons. *)
DetailIffDecimated_Witness ==
    /\ pc = "done"
    /\ getPolyCount(bpy, modelCopy) = 100000
    /\ ~Applied("Decimate")

-----------------------------------------------------------------------------
(* C3: a run that reaches the end has made exactly two outputs, in this     *)
(* order: one OBJ export to the export path, with use_selection=True and   *)
(* the selection exactly {modelCopy} although the bake had every object    *)
(* selected, and then one save of the baked image newTexture to the export *)
(* path followed by ".jpg".                                                *)
TwoOutputs ==
    /\ pc = "exportObj" =>
          /\ bpy.selected = Range(bpy.objects)
          /\ {importedModel, modelCopy} \subseteq bpy.selected
    /\ pc \notin {"exportTexture", "done"} => CallsOf("export_scene.obj") = {}
    /\ pc # "done" => CallsOf("image.save") = {}
    /\ pc = "done" =>
          LET n == Len(Ops)
          IN  /\ CallsOf("image.save") = {n}
              /\ CallsOf("export_scene.obj") = {n - 1}
              /\ Ops[n - 1].arg = "C:\\Users\\Kevin\\Documents\\test_models\\new3dmodel.obj"
              /\ Ops[n - 1].num = 1
              /\ Ops[n - 1].sel = {modelCopy}
              /\ importedModel \notin Ops[n - 1].sel
              /\ Ops[n].obj = newTexture
              /\ Ops[n].arg = "C:\\Users\\Kevin\\Documents\\test_models\\new3dmodel.obj.jpg"
              /\ bpy.images[newTexture].baked

(* A finished run in a scene of several objects. *)
TwoOutputs_Witness ==
    /\ pc = "done"
    /\ Len(bpy.objects) >= 3
    /\ importedModel # modelCopy

-----------------------------------------------------------------------------
(* obj.material_slots *)
SlotsOf(obj) == bpy.ob[obj].material_slots

(* C4: purgeMaterials leaves the copy without material slots, whatever     *)
(* their number n, by n calls of material_slot_remove; from makeNewTexture *)
(* on the copy has exactly one slot, holding the material the script       *)
(* created, whose Base Color input is linked to the image texture node     *)
(* that holds the new 1024x1024 image, the image that is saved at the end. *)
SingleTexture ==
    /\ pc \in {"decimate", "smartUV", "subSurfToTarget", "subSurfLoop",
               "shrinkWrap", "makeNewTexture"} =>
          /\ SlotsOf(modelCopy) = << >>
          /\ Cardinality(CallsOf("object.material_slot_remove"))
                = Len(SlotsOf(importedModel))
    /\ pc \in {"bake", "exportObj", "exportTexture", "done"} =>
          /\ Len(SlotsOf(modelCopy)) = 1
          /\ LET m == SlotsOf(modelCopy)[1]
             IN  /\ m = Len(bpy.materials)
                 /\ bpy.materials[m].name = "New Material"
                 /\ <<"Image Texture.Color", "Principled BSDF.Base Color">>
                       \in bpy.materials[m].links
                 /\ \E nd \in bpy.materials[m].nodes :
                       nd.name = "Image Texture" /\ nd.image = newTexture
          /\ newTexture = Len(bpy.images)
          /\ bpy.images[newTexture].width = 1024
          /\ bpy.images[newTexture].height = 1024
    /\ pc = "done" => Ops[Len(Ops)].obj = newTexture

(* A finished run whose imported model had two slots or more. *)
SingleTexture_Witness ==
    /\ pc = "done"
    /\ Len(SlotsOf(importedModel)) >= 2
    /\ Cardinality(CallsOf("object.material_slot_remove")) >= 2

-----------------------------------------------------------------------------
(* C5: the status values the import and the export operator return never   *)
(* influence what the script does: two runs that get the same answers from *)
(* the host except for these status values are at the same statement, have *)
(* issued the same host calls with the same arguments, and have ended the  *)
(* same way; neither operator is called a second time.                     *)
StatusIgnored ==
    /\ twin.pc = pc
    /\ twin.bpy.ops = bpy.ops
    /\ twin.raised = raised
    /\ twin.decimated = decimated
    /\ Cardinality(CallsOf("import_scene.obj")) <= 1
    /\ Cardinality(CallsOf("export_scene.obj")) <= 1

(* Two finished runs whose import and export statuses both differ. *)
StatusIgnored_Witness ==
    /\ pc = "done"
    /\ import_model_stat = "CANCELLED" /\ twin.import_model_stat = "FINISHED"
    /\ export_model_stat = "FINISHED" /\ twin.export_model_stat = "CANCELLED"

-----------------------------------------------------------------------------
(* L is the least level whose estimate for c polygons reaches o. *)
IsLeastLevel(L, c, o) ==
    /\ L >= 1
    /\ c * 3 * Pow(4, L - 1) >= o
    /\ \A j \in 1..(L - 1) : c * 3 * Pow(4, j - 1) < o

(* C6: for a copy of at least one polygon, the level subSurfToTarget gives  *)
(* the Subsurf modifier is the least L >= 1 with                           *)
(* startingPolyCount * 3 * 4^(L-1) >= originalPolyCount, the counts being  *)
(* the polygon counts of the copy and of the target at the call.           *)
LeastLevel ==
    /\ pc = "subSurfLoop" =>
          /\ startingPolyCount = getPolyCount(bpy, modelCopy)
          /\ originalPolyCount = getPolyCount(bpy, importedModel)
    /\ \A i \in CallsOf("object.modifier_apply") :
          (Ops[i].arg = "Subsurf" /\ startingPolyCount >= 1) =>
             /\ Ops[i].obj = modelCopy
             /\ IsLeastLevel(Ops[i].num, startingPolyCount,
                             getPolyCount(bpy, importedModel))

(* A subdivision of three levels or more has been applied. *)
LeastLevel_Witness ==
    /\ pc = "shrinkWrap"
    /\ startingPolyCount >= 1
    /\ \E i \in CallsOf("object.modifier_apply") :
          Ops[i].arg = "Subsurf" /\ Ops[i].num >= 3

-----------------------------------------------------------------------------
(* The script is in the level search; the counts for which it ends. *)
InSearch == pc = "subSurfLoop"

SearchEnds == startingPolyCount >= 1 \/ originalPolyCount <= 0

(* C7: the level search ends exactly when the copy has at least one        *)
(* polygon or the target has none: in that case the loop is left; with a   *)
(* copy of 0 polygons and a target of at least 1 the estimate stays 0, the *)
(* loop is never left, and neither the bake nor an export is ever called.  *)
LevelSearchTerminates ==
    /\ (InSearch /\ SearchEnds) ~> ~InSearch
    /\ [](pc \notin {"subSurfToTarget", "subSurfLoop"} => SearchEnds)
    /\ []((InSearch /\ ~SearchEnds) =>
            /\ estimated_poly_count = 0
            /\ CallsOf("object.bake") = {}
            /\ CallsOf("export_scene.obj") = {}
            /\ CallsOf("image.save") = {})
    /\ [][(InSearch /\ ~SearchEnds) => InSearch']_vars

(* The search on a copy of 0 polygons and a target of 1 or more, running on. *)
LevelSearchTerminates_Witness ==
    /\ InSearch
    /\ startingPolyCount = 0
    /\ originalPolyCount >= 1
    /\ level >= 3

=============================================================================
